---- MODULE Spec2Model ----
(***************************************************************************)
(* Play/Pause/Stop state machine of the Sandbox editor with its entity     *)
(* snapshot (crates/sandbox_engine/src/editor_state.rs) and the editor UI  *)
(* that drives it (crates/sandbox_editor/src/main.rs, ui/hierarchy.rs,     *)
(* ui/inspector.rs).                                                       *)
(*                                                                         *)
(* One frame of the host engine is: the StateTransition schedule (commit   *)
(* of the pending NextState, then the OnEnter handlers), then Update       *)
(* (editor_ui exactly once, gameplay systems only while Playing).          *)
(*                                                                         *)
(* The scene operations (crates/sandbox_engine/src/scene.rs) are a second   *)
(* machine, SceneSpec, over the same world.                                *)
(* The translation gizmo (crates/sandbox_editor/src/gizmo.rs) is checked   *)
(* in GizmoSpec: the play-state machine driven by frames of editor_ui      *)
(* whose viewport gets pointer and drag events.                            *)
(***************************************************************************)
EXTENDS Integers, Sequences, FiniteSets, TLC

\* ---------------------------------------------------------------- bounds
MaxEntities == 2        \* entity ids ever allocated: 1..MaxEntities
MaxCoord == 1           \* a Transform is one of 0..MaxCoord
MaxClicks == 2          \* toolbar controls clicked within one frame
MaxSceneEntities == 3   \* entity ids ever allocated by the scene operations
MaxPaths == 2           \* scene and prefab file paths: 1..MaxPaths

\* ------------------------------------------------------------- constants
Entity == 1..MaxEntities
TransformValues == 0..MaxCoord
TransformDefault == 0    \* Transform::default()
Unchanged == "Unchanged" \* NextState::Unchanged

\* Option<T>: None is the empty sequence, Some(x) the one-element sequence
NoneOpt == <<>>
Some(x) == <<x>>

\* enum EditorPlayState { Stopped (default), Playing, Paused }
EditorPlayState == {"Stopped", "Playing", "Paused"}

\* the four toolbar controls
ButtonSet == {"Play", "Pause", "Resume", "Stop"}

\* component bundles an entity can be spawned with: a sprite (Transform), a
\* camera (Camera2d with its Transform), or an engine-internal entity
\* without Transform (a window, for instance)
Bundles == { [transform |-> Some(t), camera |-> c] : t \in TransformValues, c \in BOOLEAN }
     \cup  { [transform |-> NoneOpt, camera |-> FALSE] }

VARIABLES
    state,            \* State<EditorPlayState>: the committed play state
    next_state,       \* NextState<EditorPlayState>: Unchanged or the pending state
    snapshot,         \* EditorSnapshot.entity_states: Seq of EntityState
    world,            \* live entities -> their components
    spawned,          \* number of entity ids allocated so far (ids are never reused)
    selected_entity,  \* EditorSelection.selected_entity: Option<Entity>
    started,          \* the initial OnEnter(Stopped) has run
    uiRan,            \* editor_ui has run in the current frame
    \* ---- observation (history) variables, written but never read by the program
    lastOp,           \* name of the last step taken
    prevState,        \* committed state before the last StateTransition step
    preWorld,         \* world before the last StateTransition step
    preSnapshot,      \* snapshot before the last StateTransition step
    clicked,          \* controls clicked in the last editor_ui run
    origin,           \* entity -> Transform at the Stopped->Playing commit of this session
    movedSince,       \* entities whose Transform at this session's capture differs from the snapshot before
    resumed,          \* a Paused->Playing commit happened in this session
    handlersRan,      \* the OnEnter systems run by the last step, in order
    \* ---- scene.rs
    scene_manager,    \* Option<SceneManager>: NoneOpt when the resource was never inserted
    files,            \* the file system: path -> file
    \* ---- observation variables of the scene operations
    result,           \* what the last scene operation returned
    argPath,          \* Option<path> the last scene operation was called with
    preManager,       \* scene_manager before the last scene operation
    \* ---- gizmo.rs
    drag_state,       \* GizmoDragState
    viewportEvent     \* observation: the drag flags the viewport got in the last editor_ui run

vars == <<state, next_state, snapshot, world, spawned, selected_entity,
          started, uiRan, lastOp, prevState, preWorld, preSnapshot, clicked,
          origin, movedSince, resumed, handlersRan,
          scene_manager, files, result, argPath, preManager,
          drag_state, viewportEvent>>

\* the variables of the scene operations, and those of the play-state machine
sceneVars == <<scene_manager, files, result, argPath, preManager>>
playVars == <<state, next_state, snapshot, started, uiRan, prevState, preSnapshot,
              clicked, origin, movedSince, resumed, handlersRan>>

\* ------------------------------------------------- gizmo.rs: drag state
\* GizmoDragState::default()
GizmoDragDefault == [dragging |-> NoneOpt, drag_start |-> NoneOpt, entity_start_pos |-> NoneOpt]

\* the viewport's egui::Response in a frame: where the pointer hovers (if it
\* does), the gizmo handle under it, and whether a drag started or stopped
NoEvent == [pointer_pos |-> NoneOpt, hit |-> NoneOpt, drag_started |-> FALSE, drag_stopped |-> FALSE]

\* a step in which the viewport gets no event: the gizmo keeps its drag state
NoViewportEvent == drag_state' = drag_state /\ viewportEvent' = NoEvent

\* ----------------------------------------------------- scene.rs: files
Paths == 1..MaxPaths

\* a file is absent, or holds text that is no scene, or holds a scene: the
\* list of its entities; spawnable is FALSE for a scene that deserializes
\* but that DynamicScene::write_to_world rejects
Absent == [kind |-> "absent", entities |-> <<>>, spawnable |-> FALSE]
Garbage == [kind |-> "garbage", entities |-> <<>>, spawnable |-> FALSE]
SceneFile(ents, ok) == [kind |-> "scene", entities |-> ents, spawnable |-> ok]

\* ------------------------------------------------------------- helpers
EmptyFn == [e \in {} |-> NoneOpt]

\* Query<(Entity, &Transform)> / Query<&mut Transform>: the entities matched
TransformQuery(w) == {e \in DOMAIN w : w[e].transform # NoneOpt}

\* the orders in which a query may yield a set of entities
IterationOrders(S) ==
    {s \in [1..Cardinality(S) -> S] : \A i, j \in 1..Cardinality(S) : s[i] = s[j] => i = j}

SnapshotEntities(snap) == {snap[i].entity : i \in 1..Len(snap)}

\* world.spawn(bundle): the next unused entity id gets the bundle
Spawn(w, id, bundle) == [e \in DOMAIN w \cup {id} |-> IF e = id THEN bundle ELSE w[e]]

\* world.despawn(entity)
Despawn(w, id) == [e \in DOMAIN w \ {id} |-> w[e]]

\* *transform = value
SetTransform(w, id, t) == [w EXCEPT ![id].transform = Some(t)]

\* the Transform of every transform-bearing entity of a world
Transforms(w) == [e \in TransformQuery(w) |-> w[e].transform[1]]

\* -------------------------------------------- editor_state.rs: handlers
\* faulty variant: the query filtered by Without<Camera2d>
capture_snapshot_skips_cameras(old, w, order) ==
    LET kept == SelectSeq(order, LAMBDA e : ~w[e].camera)
    IN [i \in 1..Len(kept) |->
           [entity |-> kept[i], transform |-> w[kept[i]].transform[1], velocity |-> NoneOpt]]

\* faulty variant: a snapshot already held is kept instead of cleared
capture_snapshot_keeps_old(old, w, order) ==
    IF old # <<>> THEN old
    ELSE [i \in 1..Len(order) |->
           [entity |-> order[i], transform |-> w[order[i]].transform[1], velocity |-> NoneOpt]]

\* faulty variant: the entity's Transform is also stored as its velocity
capture_snapshot_stores_velocity(old, w, order) ==
    [i \in 1..Len(order) |->
        [entity |-> order[i], transform |-> w[order[i]].transform[1],
         velocity |-> w[order[i]].transform]]

\* capture_snapshot: clear(), then push one EntityState per query item
capture_snapshot(old, w, order) ==
    [i \in 1..Len(order) |->
        [entity |-> order[i], transform |-> w[order[i]].transform[1], velocity |-> NoneOpt]]

\* one iteration of restore_snapshot's loop: query.get_mut(state.entity)
\* succeeds only for a live entity that has a Transform
RestoreOne(w, st) ==
    IF st.entity \in TransformQuery(w) THEN SetTransform(w, st.entity, st.transform) ELSE w

RECURSIVE RestoreFrom(_, _, _)
RestoreFrom(snap, w, i) ==
    IF i > Len(snap) THEN w ELSE RestoreFrom(snap, RestoreOne(w, snap[i]), i + 1)

\* faulty variant: a vanished entity is spawned again with its stored Transform
restore_snapshot_respawns(snap, w) ==
    LET base == RestoreFrom(snap, w, 1)
        gone == SnapshotEntities(snap) \ DOMAIN w
        last(e) == CHOOSE i \in 1..Len(snap) : snap[i].entity = e
    IN [e \in DOMAIN w \cup gone |->
           IF e \in gone THEN [transform |-> Some(snap[last(e)].transform), camera |-> FALSE]
           ELSE base[e]]

\* faulty variant: transform-bearing entities missing from the snapshot are despawned
restore_snapshot_drops_new(snap, w) ==
    LET base == RestoreFrom(snap, w, 1)
    IN [e \in {x \in DOMAIN w : w[x].transform = NoneOpt \/ x \in SnapshotEntities(snap)} |-> base[e]]

\* faulty variant: the loop starts at the second entry
restore_snapshot_skips_first(snap, w) ==
    IF Len(snap) = 0 THEN w ELSE RestoreFrom(snap, w, 2)

\* faulty variant: entities missing from the snapshot get Transform::default()
restore_snapshot_resets_others(snap, w) ==
    LET base == RestoreFrom(snap, w, 1)
    IN [e \in DOMAIN w |->
           IF e \in TransformQuery(w) \ SnapshotEntities(snap)
           THEN [base[e] EXCEPT !.transform = Some(TransformDefault)]
           ELSE base[e]]

\* restore_snapshot: for state in &snapshot.entity_states { ... }
restore_snapshot(snap, w) == RestoreFrom(snap, w, 1)

\* EditorStatePlugin::build: OnEnter(Playing) runs capture_snapshot and
\* OnEnter(Stopped) runs restore_snapshot, whatever state was exited
\* faulty variant: the capture handler is also registered for OnEnter(Paused)
RunsCapture_on_pause(from, to) == to # "Stopped" /\ from # to
RunsCapture(from, to) == to = "Playing" /\ from # to
\* faulty variant: the restore handler runs in every frame that ends Stopped
RunsRestore_every_frame(from, to) == to = "Stopped"
\* faulty variant: the restore handler is registered for OnExit(Playing)
RunsRestore_on_exit_playing(from, to) == from = "Playing" /\ from # to
RunsRestore(from, to) == to = "Stopped" /\ from # to

\* ------------------------------------------------ main.rs: toolbar_ui
\* faulty variants of the enabled conditions are named after what they accept
play_enabled_always(s) == TRUE
play_enabled(s) == s # "Playing"
pause_enabled_not_paused(s) == s # "Paused"
pause_enabled(s) == s = "Playing"
resume_shown_not_stopped(s) == s # "Stopped"
resume_shown(s) == s = "Paused"
stop_enabled(s) == s # "Stopped"

\* whether a click on control b is accepted when the committed state is s
Accepted(b, s) ==
    CASE b = "Play" -> play_enabled(s)
      [] b = "Pause" -> pause_enabled(s)
      [] b = "Resume" -> resume_shown(s)
      [] b = "Stop" -> stop_enabled(s)

\* the state a control requests
Target(b) ==
    CASE b = "Play" -> "Playing"
      [] b = "Pause" -> "Paused"
      [] b = "Resume" -> "Playing"
      [] b = "Stop" -> "Stopped"

\* faulty variant: once a click was accepted, later clicks are ignored
ToolbarWinner_first_wins(s, c) ==
    LET a4 == IF "Stop" \in c /\ Accepted("Stop", s) THEN Some("Stop") ELSE NoneOpt
        a3 == IF "Resume" \in c /\ Accepted("Resume", s) THEN Some("Resume") ELSE a4
        a2 == IF "Pause" \in c /\ Accepted("Pause", s) THEN Some("Pause") ELSE a3
        a1 == IF "Play" \in c /\ Accepted("Play", s) THEN Some("Play") ELSE a2
    IN a1

\* toolbar_ui evaluates Play, Pause, Resume, Stop in this order; every
\* accepted click calls next_state.set, so the last accepted click wins.
\* The result is the control that wins, or NoneOpt.
ToolbarWinner(s, c) ==
    LET a1 == IF "Play" \in c /\ Accepted("Play", s) THEN Some("Play") ELSE NoneOpt
        a2 == IF "Pause" \in c /\ Accepted("Pause", s) THEN Some("Pause") ELSE a1
        a3 == IF "Resume" \in c /\ Accepted("Resume", s) THEN Some("Resume") ELSE a2
        a4 == IF "Stop" \in c /\ Accepted("Stop", s) THEN Some("Stop") ELSE a3
    IN a4

toolbar_ui(s, pending, c) ==
    IF ToolbarWinner(s, c) = NoneOpt THEN pending ELSE Target(ToolbarWinner(s, c)[1])

\* ------------------------------------------------------------------ Init
\* the worlds an application's Startup systems can have built
\* (main.rs setup: a camera and sprites)
InitWorlds == UNION { [1..n -> Bundles] : n \in 0..MaxEntities }

Init ==
    /\ state = "Stopped"             \* #[default] Stopped
    /\ next_state = Unchanged
    /\ snapshot = <<>>               \* EditorSnapshot::default()
    /\ world \in InitWorlds
    /\ spawned = Cardinality(DOMAIN world)
    /\ selected_entity = NoneOpt     \* EditorSelection::default()
    /\ started = FALSE
    /\ uiRan = FALSE
    /\ lastOp = "init"
    /\ prevState = "Stopped"
    /\ preWorld = EmptyFn
    /\ preSnapshot = <<>>
    /\ clicked = {}
    /\ origin = EmptyFn
    /\ movedSince = {}
    /\ resumed = FALSE
    /\ handlersRan = <<>>
    /\ scene_manager = NoneOpt       \* the editor application adds no ScenePlugin
    /\ files = [p \in Paths |-> Absent]
    /\ result = "none"
    /\ argPath = NoneOpt
    /\ preManager = NoneOpt
    /\ drag_state = GizmoDragDefault
    /\ viewportEvent = NoEvent

\* --------------------------------------------------------------- actions
\* init_state::<EditorPlayState>(): the initial transition enters the default
\* state, so OnEnter(Stopped) runs restore_snapshot once at startup
init_state ==
    /\ ~started
    /\ started' = TRUE
    /\ uiRan' = TRUE
    /\ world' = restore_snapshot(snapshot, world)
    /\ handlersRan' = <<"restore_snapshot">>
    /\ lastOp' = "init_state"
    /\ prevState' = state
    /\ preWorld' = world
    /\ preSnapshot' = snapshot
    /\ UNCHANGED <<state, next_state, snapshot, spawned, selected_entity, clicked,
                   origin, movedSince, resumed>>
    /\ UNCHANGED sceneVars
    /\ NoViewportEvent

\* the StateTransition schedule of one frame: the pending request, if any, is
\* taken out of the slot and committed; a change of state runs the OnEnter
\* systems of the state entered
apply_state_transition ==
    /\ started
    /\ uiRan
    /\ LET to == IF next_state = Unchanged THEN state ELSE next_state
       IN /\ state' = to
          /\ next_state' = Unchanged
          /\ \E order \in IterationOrders(TransformQuery(world)) :
                snapshot' = IF RunsCapture(state, to)
                            THEN capture_snapshot(snapshot, world, order)
                            ELSE snapshot
          /\ world' = IF RunsRestore(state, to)
                      THEN restore_snapshot(snapshot, world)
                      ELSE world
          /\ handlersRan' = (IF RunsCapture(state, to) THEN <<"capture_snapshot">> ELSE <<>>)
                             \o (IF RunsRestore(state, to) THEN <<"restore_snapshot">> ELSE <<>>)
          /\ origin' = IF state = "Stopped" /\ to = "Playing" THEN Transforms(world) ELSE origin
          /\ movedSince' = IF state = "Stopped" /\ to = "Playing"
                           THEN {e \in TransformQuery(world) :
                                   \E i \in 1..Len(snapshot) :
                                      /\ snapshot[i].entity = e
                                      /\ snapshot[i].transform # world[e].transform[1]}
                           ELSE movedSince
          /\ resumed' = IF state = "Stopped" /\ to = "Playing" THEN FALSE
                        ELSE IF state = "Paused" /\ to = "Playing" THEN TRUE
                        ELSE resumed
    /\ uiRan' = FALSE
    /\ lastOp' = "apply_state_transition"
    /\ prevState' = state
    /\ preWorld' = world
    /\ preSnapshot' = snapshot
    /\ clicked' = {}
    /\ UNCHANGED <<spawned, selected_entity, started>>
    /\ UNCHANGED sceneVars
    /\ NoViewportEvent

\* the observation of the last commit is dropped by every other step, and
\* the observation of a play session once the machine is Stopped again
ForgetCommit ==
    /\ prevState' = state
    /\ preWorld' = EmptyFn
    /\ preSnapshot' = <<>>
    /\ origin' = IF state = "Stopped" THEN EmptyFn ELSE origin
    /\ movedSince' = IF state = "Stopped" THEN {} ELSE movedSince
    /\ resumed' = IF state = "Stopped" THEN FALSE ELSE resumed
    /\ handlersRan' = <<>>

\* hierarchy_panel: "+ Add Entity", "Delete", or a click on an entity's label
Idle == [kind |-> "idle", entity |-> NoneOpt]
HierarchyInputs ==
    { [kind |-> k, entity |-> NoneOpt] : k \in {"idle", "add", "delete"} }
    \cup { [kind |-> "select", entity |-> Some(e)] : e \in Entity }

\* add_new_entity: spawn (Name, Sprite, Transform::default()) and select it;
\* cap is the number of entity ids the model allows
AddEntityUpTo(cap, w, n, sel) ==
    IF n < cap
    THEN [world |-> Spawn(w, n + 1, [transform |-> Some(TransformDefault), camera |-> FALSE]),
          spawned |-> n + 1, selected |-> Some(n + 1)]
    ELSE [world |-> w, spawned |-> n, selected |-> sel]

add_new_entity(w, n, sel) == AddEntityUpTo(MaxEntities, w, n, sel)

\* delete_selected_entity: despawn the selected entity if it exists, then
\* clear the selection
delete_selected_entity(w, n, sel) ==
    IF sel # NoneOpt /\ sel[1] \in DOMAIN w
    THEN [world |-> Despawn(w, sel[1]), spawned |-> n, selected |-> NoneOpt]
    ELSE [world |-> w, spawned |-> n, selected |-> sel]

hierarchy_panel(w, n, sel, h) ==
    CASE h.kind = "add" -> add_new_entity(w, n, sel)
      [] h.kind = "delete" -> delete_selected_entity(w, n, sel)
      [] h.kind = "select" /\ h.entity[1] \in DOMAIN w ->
            [world |-> w, spawned |-> n, selected |-> h.entity]
      [] OTHER -> [world |-> w, spawned |-> n, selected |-> sel]

\* inspector_panel: a selection that no longer exists is cleared; otherwise
\* display_transform writes the edited value into the selected entity's
\* Transform (edit is NoneOpt when no field was changed)
inspector_panel(w, sel, edit) ==
    IF sel = NoneOpt THEN [world |-> w, selected |-> sel]
    ELSE IF sel[1] \notin DOMAIN w THEN [world |-> w, selected |-> NoneOpt]
    ELSE IF edit # NoneOpt /\ sel[1] \in TransformQuery(w)
         THEN [world |-> SetTransform(w, sel[1], edit[1]), selected |-> sel]
         ELSE [world |-> w, selected |-> sel]

\* what the pointer does in one frame: at most one panel gets an event
UiInputs ==
    { [clicked |-> c, hier |-> Idle, edit |-> NoneOpt] :
          c \in {x \in SUBSET ButtonSet : Cardinality(x) <= MaxClicks} }
    \cup { [clicked |-> {}, hier |-> h, edit |-> NoneOpt] : h \in HierarchyInputs }
    \cup { [clicked |-> {}, hier |-> Idle, edit |-> Some(t)] : t \in TransformValues }

\* editor_ui: toolbar, hierarchy panel, inspector panel, once per frame
editor_ui ==
    /\ started
    /\ ~uiRan
    /\ \E in \in UiInputs :
         LET h == hierarchy_panel(world, spawned, selected_entity, in.hier)
             i == inspector_panel(h.world, h.selected, in.edit)
         IN /\ next_state' = toolbar_ui(state, next_state, in.clicked)
            /\ world' = i.world
            /\ spawned' = h.spawned
            /\ selected_entity' = i.selected
            /\ clicked' = in.clicked
    /\ uiRan' = TRUE
    /\ lastOp' = "editor_ui"
    /\ ForgetCommit
    /\ UNCHANGED <<state, snapshot, started>>
    /\ UNCHANGED sceneVars
    /\ NoViewportEvent

\* a system of GameplaySystemSet: runs only while the committed state is
\* Playing (run_if(in_state(Playing))); it may move, spawn or despawn entities
\* faulty variant: the set is configured without its run condition
GameplayRuns_always(s) == TRUE
GameplayRuns(s) == s = "Playing"

gameplay_move ==
    /\ started
    /\ GameplayRuns(state)
    /\ \E e \in TransformQuery(world), t \in TransformValues :
         /\ t # world[e].transform[1]
         /\ world' = SetTransform(world, e, t)
    /\ clicked' = {}
    /\ lastOp' = "gameplay_system"
    /\ ForgetCommit
    /\ UNCHANGED <<state, next_state, snapshot, spawned, selected_entity, started, uiRan>>
    /\ UNCHANGED sceneVars
    /\ NoViewportEvent

gameplay_spawn ==
    /\ started
    /\ GameplayRuns(state)
    /\ spawned < MaxEntities
    /\ \E b \in Bundles : world' = Spawn(world, spawned + 1, b)
    /\ spawned' = spawned + 1
    /\ clicked' = {}
    /\ lastOp' = "gameplay_system"
    /\ ForgetCommit
    /\ UNCHANGED <<state, next_state, snapshot, selected_entity, started, uiRan>>
    /\ UNCHANGED sceneVars
    /\ NoViewportEvent

gameplay_despawn ==
    /\ started
    /\ GameplayRuns(state)
    /\ \E e \in DOMAIN world : world' = Despawn(world, e)
    /\ clicked' = {}
    /\ lastOp' = "gameplay_system"
    /\ ForgetCommit
    /\ UNCHANGED <<state, next_state, snapshot, spawned, selected_entity, started, uiRan>>
    /\ UNCHANGED sceneVars
    /\ NoViewportEvent

Next ==
    \/ init_state
    \/ apply_state_transition
    \/ editor_ui
    \/ gameplay_move
    \/ gameplay_spawn
    \/ gameplay_despawn

Spec == Init /\ [][Next]_vars

\* ------------------------------------------- gizmo.rs: translation gizmo
GizmoAxis == {"X", "Y", "Center"}

\* where the pointer can be: one screen coordinate (x), 1:1 with the world
PointerPositions == 0..MaxCoord

ViewportEvents ==
    { [pointer_pos |-> NoneOpt, hit |-> NoneOpt, drag_started |-> a, drag_stopped |-> b] :
          a \in BOOLEAN, b \in BOOLEAN }
    \cup { [pointer_pos |-> Some(p), hit |-> h, drag_started |-> a, drag_stopped |-> b] :
              p \in PointerPositions, h \in {NoneOpt} \cup {Some(x) : x \in GizmoAxis},
              a \in BOOLEAN, b \in BOOLEAN }

\* the x component of world_delta: the X and Center handles follow the
\* pointer's x, the Y handle leaves x alone
WorldDelta(axis, delta) == IF axis \in {"X", "Center"} THEN delta ELSE 0

\* the body of draw_translation_gizmo after its early returns; ev.hit is
\* what hit_test_gizmo finds under the pointer
GizmoInteraction(w, entity, drag, ev) ==
    LET hovered_axis == IF ev.pointer_pos # NoneOpt THEN ev.hit ELSE NoneOpt
        started_drag == IF ev.drag_started /\ hovered_axis # NoneOpt
                        THEN [dragging |-> hovered_axis, drag_start |-> ev.pointer_pos,
                              entity_start_pos |-> w[entity].transform]
                        ELSE drag
        d == IF ev.drag_stopped THEN GizmoDragDefault ELSE started_drag
        new_position ==
            IF d.dragging # NoneOpt /\ d.drag_start # NoneOpt /\ d.entity_start_pos # NoneOpt
               /\ ev.pointer_pos # NoneOpt
            THEN Some(d.entity_start_pos[1]
                      + WorldDelta(d.dragging[1], ev.pointer_pos[1] - d.drag_start[1]))
            ELSE NoneOpt
    IN [world |-> IF new_position # NoneOpt THEN SetTransform(w, entity, new_position[1]) ELSE w,
        drag |-> d]

\* faulty variant: the gizmo is only switched off while Playing
draw_translation_gizmo_while_paused(s, w, sel, drag, ev) ==
    IF s = "Playing" THEN [world |-> w, drag |-> drag]
    ELSE IF sel = NoneOpt THEN [world |-> w, drag |-> drag]
    ELSE IF sel[1] \notin TransformQuery(w) THEN [world |-> w, drag |-> drag]
    ELSE IF ~(\E c \in TransformQuery(w) : w[c].camera) THEN [world |-> w, drag |-> drag]
    ELSE GizmoInteraction(w, sel[1], drag, ev)

\* draw_translation_gizmo: returns early unless the play state is Stopped,
\* an entity is selected, it has a Transform, and a camera exists
draw_translation_gizmo(s, w, sel, drag, ev) ==
    IF s # "Stopped" THEN [world |-> w, drag |-> drag]
    ELSE IF sel = NoneOpt THEN [world |-> w, drag |-> drag]
    ELSE IF sel[1] \notin TransformQuery(w) THEN [world |-> w, drag |-> drag]
    ELSE IF ~(\E c \in TransformQuery(w) : w[c].camera) THEN [world |-> w, drag |-> drag]
    ELSE GizmoInteraction(w, sel[1], drag, ev)

\* what is kept of a frame's viewport event for observation: the drag flags
ObservedEvent(ev) ==
    [NoEvent EXCEPT !.drag_started = ev.drag_started, !.drag_stopped = ev.drag_stopped]

\* what the editor gets in a frame of the gizmo machine: toolbar clicks, or
\* a click on an entity's label in the hierarchy panel, or pointer and drag
\* events in the viewport (at most one panel gets an event)
GizmoFrameInputs ==
    { [clicked |-> c, hier |-> Idle, event |-> NoEvent] :
          c \in {x \in SUBSET ButtonSet : Cardinality(x) <= MaxClicks} }
    \cup { [clicked |-> {}, hier |-> h, event |-> NoEvent] :
              h \in {x \in HierarchyInputs : x.kind = "select"} }
    \cup { [clicked |-> {}, hier |-> Idle, event |-> ev] : ev \in ViewportEvents }

\* editor_ui with its viewport: toolbar, hierarchy panel, inspector panel
\* (no field edited), then viewport_panel with draw_translation_gizmo
editor_ui_viewport ==
    /\ started
    /\ ~uiRan
    /\ \E in \in GizmoFrameInputs :
         LET h == hierarchy_panel(world, spawned, selected_entity, in.hier)
             i == inspector_panel(h.world, h.selected, NoneOpt)
             g == draw_translation_gizmo(state, i.world, i.selected, drag_state, in.event)
         IN /\ \A e \in TransformQuery(g.world) : g.world[e].transform[1] \in TransformValues
            /\ next_state' = toolbar_ui(state, next_state, in.clicked)
            /\ world' = g.world
            /\ spawned' = h.spawned
            /\ selected_entity' = i.selected
            /\ drag_state' = g.drag
            /\ clicked' = in.clicked
            /\ viewportEvent' = ObservedEvent(in.event)
    /\ uiRan' = TRUE
    /\ lastOp' = "editor_ui_viewport"
    /\ ForgetCommit
    /\ UNCHANGED <<state, snapshot, started>>
    /\ UNCHANGED sceneVars

\* the editor started on a sprite, alone or with a camera
GizmoInitWorlds ==
    { w \in InitWorlds :
        /\ DOMAIN w # {}
        /\ w[1] = [transform |-> Some(TransformDefault), camera |-> FALSE]
        /\ \A e \in DOMAIN w \ {1} : w[e].camera }

GizmoInit == Init /\ world \in GizmoInitWorlds

\* the play-state machine driven by frames of editor_ui_viewport alone
GizmoNext ==
    \/ init_state
    \/ apply_state_transition
    \/ editor_ui_viewport

GizmoSpec == GizmoInit /\ [][GizmoNext]_vars

\* ------------------------------------------------ scene.rs: operations
\* SceneManager::default(), mark_dirty, mark_clean; the callers reach the
\* manager through world.get_resource_mut, which is None without ScenePlugin
SceneManagerDefault == [current_scene_path |-> NoneOpt, dirty |-> FALSE]

mark_dirty(m) == IF m = NoneOpt THEN m ELSE Some([m[1] EXCEPT !.dirty = TRUE])

mark_clean(m) == IF m = NoneOpt THEN m ELSE Some([m[1] EXCEPT !.dirty = FALSE])

set_current_scene_path(m, p) ==
    IF m = NoneOpt THEN m ELSE Some([m[1] EXCEPT !.current_scene_path = p])

\* should_serialize_entity: no camera, and a Transform
should_serialize_entity(b) ==
    IF b.camera THEN FALSE
    ELSE IF b.transform = NoneOpt THEN FALSE
    ELSE TRUE

Serializable(w) == {e \in DOMAIN w : should_serialize_entity(w[e])}

\* faulty variant: every entity with a Transform is despawned, cameras too
clear_scene_entities_takes_cameras(w) ==
    [e \in {x \in DOMAIN w : w[x].transform = NoneOpt} |-> w[e]]

\* clear_scene_entities: collect the serializable entities, despawn each
clear_scene_entities(w) == [e \in DOMAIN w \ Serializable(w) |-> w[e]]

\* what save_scene can hit: nothing, a serialization error, a failing
\* create_dir_all, a failing write that left the file alone, or a failing
\* write that had already truncated the file
SaveFaults == {"none", "serialization", "create_dir", "write", "write_truncated"}

\* the scene a world serializes to: its serializable entities in the order
\* iter_entities yields them, each with its reflected components
Serialize(w, order) == SceneFile([i \in 1..Len(order) |-> w[order[i]]], TRUE)

\* faulty variant: the manager is updated before the file is written
save_scene_updates_first(w, m, fs, path, fault, order) ==
    LET saved == mark_clean(set_current_scene_path(m, Some(path)))
    IN CASE fault = "serialization" -> [files |-> fs, manager |-> saved, result |-> "Serialization"]
         [] fault = "create_dir" -> [files |-> fs, manager |-> saved, result |-> "Io"]
         [] fault = "write" -> [files |-> fs, manager |-> saved, result |-> "Io"]
         [] fault = "write_truncated" ->
               [files |-> [fs EXCEPT ![path] = Garbage], manager |-> saved, result |-> "Io"]
         [] OTHER -> [files |-> [fs EXCEPT ![path] = Serialize(w, order)],
                      manager |-> saved, result |-> "Ok"]

\* save_scene: serialize, create the directory, write, then update the manager
save_scene(w, m, fs, path, fault, order) ==
    CASE fault = "serialization" -> [files |-> fs, manager |-> m, result |-> "Serialization"]
      [] fault = "create_dir" -> [files |-> fs, manager |-> m, result |-> "Io"]
      [] fault = "write" -> [files |-> fs, manager |-> m, result |-> "Io"]
      [] fault = "write_truncated" ->
            [files |-> [fs EXCEPT ![path] = Garbage], manager |-> m, result |-> "Io"]
      [] OTHER -> [files |-> [fs EXCEPT ![path] = Serialize(w, order)],
                   manager |-> mark_clean(set_current_scene_path(m, Some(path))),
                   result |-> "Ok"]

\* faulty variant: the path save_scene set is left in the manager
handle_save_prefab_keeps_saved_path(w, m, fs, dialog, fault, order) ==
    IF dialog = NoneOpt THEN [files |-> fs, manager |-> m, result |-> "none"]
    ELSE save_scene(w, m, fs, dialog[1], fault, order)

\* file_menu.rs handle_save_prefab: remember the current scene path, ask for
\* a file (dialog is NoneOpt when the dialog is cancelled), save_scene, and
\* after Ok put the remembered path back
handle_save_prefab(w, m, fs, dialog, fault, order) ==
    LET previous_path == IF m = NoneOpt THEN NoneOpt ELSE m[1].current_scene_path
    IN IF dialog = NoneOpt THEN [files |-> fs, manager |-> m, result |-> "none"]
       ELSE LET r == save_scene(w, m, fs, dialog[1], fault, order)
            IN IF r.result = "Ok"
               THEN [files |-> r.files,
                     manager |-> set_current_scene_path(r.manager, previous_path),
                     result |-> r.result]
               ELSE r

\* an entity spawned by spawn_empty() that got no component yet
EmptyBundle == [transform |-> NoneOpt, camera |-> FALSE]

\* DynamicScene::write_to_world: one new entity per scene entity, then the
\* components; applied[i] tells whether entity i got its components (all of
\* them when the call succeeds)
write_to_world(w, n, ents, applied) ==
    [e \in DOMAIN w \cup (n + 1 .. n + Len(ents)) |->
        IF e \in DOMAIN w THEN w[e]
        ELSE IF applied[e - n] THEN ents[e - n] ELSE EmptyBundle]

AllApplied(ents) == [i \in 1..Len(ents) |-> TRUE]

\* what a failing write_to_world can leave behind: nothing spawned
\* (NoneOpt), or every entity spawned and some of them without components
PartialWrites(ents) == {NoneOpt} \cup {Some(a) : a \in [1..Len(ents) -> BOOLEAN] \ {AllApplied(ents)}}

FailedWrite(w, n, ents, partial) ==
    IF partial = NoneOpt THEN [world |-> w, spawned |-> n]
    ELSE [world |-> write_to_world(w, n, ents, partial[1]), spawned |-> n + Len(ents)]

\* faulty variant: the scene is spawned without clearing the world first
load_scene_keeps_entities(w, n, m, fs, path, partial) ==
    LET f == fs[path]
    IN CASE f.kind = "absent" -> [world |-> w, spawned |-> n, manager |-> m, result |-> "FileRead"]
         [] f.kind = "garbage" ->
               [world |-> w, spawned |-> n, manager |-> m, result |-> "Deserialization"]
         [] f.kind = "scene" /\ ~f.spawnable ->
               [world |-> FailedWrite(w, n, f.entities, partial).world,
                spawned |-> FailedWrite(w, n, f.entities, partial).spawned,
                manager |-> m, result |-> "Deserialization"]
         [] OTHER ->
               [world |-> write_to_world(w, n, f.entities, AllApplied(f.entities)),
                spawned |-> n + Len(f.entities),
                manager |-> mark_clean(set_current_scene_path(m, Some(path))),
                result |-> "Ok"]

\* load_scene: read, deserialize, clear_scene_entities, write_to_world, then
\* update the manager
load_scene(w, n, m, fs, path, partial) ==
    LET f == fs[path]
        cleared == clear_scene_entities(w)
    IN CASE f.kind = "absent" -> [world |-> w, spawned |-> n, manager |-> m, result |-> "FileRead"]
         [] f.kind = "garbage" ->
               [world |-> w, spawned |-> n, manager |-> m, result |-> "Deserialization"]
         [] f.kind = "scene" /\ ~f.spawnable ->
               [world |-> FailedWrite(cleared, n, f.entities, partial).world,
                spawned |-> FailedWrite(cleared, n, f.entities, partial).spawned,
                manager |-> m, result |-> "Deserialization"]
         [] OTHER ->
               [world |-> write_to_world(cleared, n, f.entities, AllApplied(f.entities)),
                spawned |-> n + Len(f.entities),
                manager |-> mark_clean(set_current_scene_path(m, Some(path))),
                result |-> "Ok"]

\* faulty variant: the world is cleared before the prefab is spawned
spawn_prefab_clears_first(w, n, m, fs, path, partial) ==
    LET f == fs[path]
        cleared == clear_scene_entities(w)
    IN CASE f.kind = "absent" -> [world |-> w, spawned |-> n, manager |-> m, result |-> "FileRead"]
         [] f.kind = "garbage" ->
               [world |-> w, spawned |-> n, manager |-> m, result |-> "Deserialization"]
         [] f.kind = "scene" /\ ~f.spawnable ->
               [world |-> FailedWrite(cleared, n, f.entities, partial).world,
                spawned |-> FailedWrite(cleared, n, f.entities, partial).spawned,
                manager |-> m, result |-> "Deserialization"]
         [] OTHER ->
               [world |-> write_to_world(cleared, n, f.entities, AllApplied(f.entities)),
                spawned |-> n + Len(f.entities),
                manager |-> mark_dirty(m), result |-> "Ok"]

\* spawn_prefab: read, deserialize, write_to_world, then mark_dirty
spawn_prefab(w, n, m, fs, path, partial) ==
    LET f == fs[path]
    IN CASE f.kind = "absent" -> [world |-> w, spawned |-> n, manager |-> m, result |-> "FileRead"]
         [] f.kind = "garbage" ->
               [world |-> w, spawned |-> n, manager |-> m, result |-> "Deserialization"]
         [] f.kind = "scene" /\ ~f.spawnable ->
               [world |-> FailedWrite(w, n, f.entities, partial).world,
                spawned |-> FailedWrite(w, n, f.entities, partial).spawned,
                manager |-> m, result |-> "Deserialization"]
         [] OTHER ->
               [world |-> write_to_world(w, n, f.entities, AllApplied(f.entities)),
                spawned |-> n + Len(f.entities),
                manager |-> mark_dirty(m), result |-> "Ok"]

\* faulty variant: the scene is emptied but keeps its path
new_scene_keeps_path(w, m) ==
    [world |-> clear_scene_entities(w), manager |-> mark_clean(m)]

\* new_scene: clear_scene_entities, then an unnamed clean scene
new_scene(w, m) ==
    [world |-> clear_scene_entities(w),
     manager |-> mark_clean(set_current_scene_path(m, NoneOpt))]

\* ------------------------------------- the scene operations as a machine
\* An application with ScenePlugin: the operations of scene.rs are called,
\* one at a time, on a world that the hierarchy panel also edits. The
\* play-state machine is left in its initial state.
SceneEntity == 1..MaxSceneEntities

\* the worlds found at startup; they leave one entity id to the operations
SceneInitWorlds == UNION { [1..n -> Bundles] : n \in 0..(MaxSceneEntities - 1) }

\* the files found on disk at startup: none, text that is no scene, or a
\* one-sprite scene that write_to_world accepts or rejects
InitFiles ==
    {Absent, Garbage}
    \cup { SceneFile(<<[transform |-> Some(MaxCoord), camera |-> FALSE]>>, ok) : ok \in BOOLEAN }

SceneInit ==
    /\ state = "Stopped"
    /\ next_state = Unchanged
    /\ snapshot = <<>>
    /\ world \in SceneInitWorlds
    /\ spawned = Cardinality(DOMAIN world)
    /\ selected_entity = NoneOpt
    /\ started = FALSE
    /\ uiRan = FALSE
    /\ lastOp = "init"
    /\ prevState = "Stopped"
    /\ preWorld = EmptyFn
    /\ preSnapshot = <<>>
    /\ clicked = {}
    /\ origin = EmptyFn
    /\ movedSince = {}
    /\ resumed = FALSE
    /\ handlersRan = <<>>
    /\ scene_manager = Some(SceneManagerDefault)   \* init_resource::<SceneManager>()
    /\ files \in [Paths -> InitFiles]
    /\ result = "none"
    /\ argPath = NoneOpt
    /\ preManager = NoneOpt
    /\ drag_state = GizmoDragDefault
    /\ viewportEvent = NoEvent

\* the observation of the last operation is dropped by a frame in which no
\* operation is called, and the next operation is called after that
frame_without_call ==
    /\ lastOp \notin {"init", "idle"}
    /\ lastOp' = "idle"
    /\ result' = "none"
    /\ argPath' = NoneOpt
    /\ preManager' = NoneOpt
    /\ preWorld' = EmptyFn
    /\ UNCHANGED <<world, spawned, selected_entity, scene_manager, files>>
    /\ UNCHANGED playVars
    /\ NoViewportEvent

Observed == lastOp \in {"init", "idle"}

call_save_scene ==
    \E path \in Paths, fault \in SaveFaults, order \in IterationOrders(Serializable(world)) :
        /\ Observed
        /\ LET r == save_scene(world, scene_manager, files, path, fault, order)
           IN /\ files' = r.files
              /\ scene_manager' = r.manager
              /\ result' = r.result
        /\ argPath' = Some(path)
        /\ preManager' = scene_manager
        /\ preWorld' = world
        /\ lastOp' = "save_scene"
        /\ UNCHANGED <<world, spawned, selected_entity>>
        /\ UNCHANGED playVars
        /\ NoViewportEvent

call_handle_save_prefab ==
    \E dialog \in {NoneOpt} \cup {Some(p) : p \in Paths}, fault \in SaveFaults,
       order \in IterationOrders(Serializable(world)) :
        /\ Observed
        /\ LET r == handle_save_prefab(world, scene_manager, files, dialog, fault, order)
           IN /\ files' = r.files
              /\ scene_manager' = r.manager
              /\ result' = r.result
        /\ argPath' = dialog
        /\ preManager' = scene_manager
        /\ preWorld' = world
        /\ lastOp' = "handle_save_prefab"
        /\ UNCHANGED <<world, spawned, selected_entity>>
        /\ UNCHANGED playVars
        /\ NoViewportEvent

call_clear_scene_entities ==
    /\ Observed
    /\ world' = clear_scene_entities(world)
    /\ result' = "none"
    /\ argPath' = NoneOpt
    /\ preManager' = scene_manager
    /\ preWorld' = world
    /\ lastOp' = "clear_scene_entities"
    /\ UNCHANGED <<spawned, selected_entity, scene_manager, files>>
    /\ UNCHANGED playVars
    /\ NoViewportEvent

call_load_scene ==
    \E path \in Paths :
        /\ Observed
        /\ spawned + Len(files[path].entities) <= MaxSceneEntities
        /\ \E partial \in PartialWrites(files[path].entities) :
              LET r == load_scene(world, spawned, scene_manager, files, path, partial)
              IN /\ world' = r.world
                 /\ spawned' = r.spawned
                 /\ scene_manager' = r.manager
                 /\ result' = r.result
        /\ argPath' = Some(path)
        /\ preManager' = scene_manager
        /\ preWorld' = world
        /\ lastOp' = "load_scene"
        /\ UNCHANGED <<selected_entity, files>>
        /\ UNCHANGED playVars
        /\ NoViewportEvent

call_spawn_prefab ==
    \E path \in Paths :
        /\ Observed
        /\ spawned + Len(files[path].entities) <= MaxSceneEntities
        /\ \E partial \in PartialWrites(files[path].entities) :
              LET r == spawn_prefab(world, spawned, scene_manager, files, path, partial)
              IN /\ world' = r.world
                 /\ spawned' = r.spawned
                 /\ scene_manager' = r.manager
                 /\ result' = r.result
        /\ argPath' = Some(path)
        /\ preManager' = scene_manager
        /\ preWorld' = world
        /\ lastOp' = "spawn_prefab"
        /\ UNCHANGED <<selected_entity, files>>
        /\ UNCHANGED playVars
        /\ NoViewportEvent

call_new_scene ==
    /\ Observed
    /\ world' = new_scene(world, scene_manager).world
    /\ scene_manager' = new_scene(world, scene_manager).manager
    /\ result' = "none"
    /\ argPath' = NoneOpt
    /\ preManager' = scene_manager
    /\ preWorld' = world
    /\ lastOp' = "new_scene"
    /\ UNCHANGED <<spawned, selected_entity, files>>
    /\ UNCHANGED playVars
    /\ NoViewportEvent

\* the hierarchy panel on a world with a SceneManager: "+ Add Entity" and a
\* "Delete" that despawned something mark the scene dirty
SceneHierarchyInputs ==
    { [kind |-> k, entity |-> NoneOpt] : k \in {"add", "delete"} }
    \cup { [kind |-> "select", entity |-> Some(e)] : e \in SceneEntity }

call_hierarchy_panel ==
    \E h \in SceneHierarchyInputs :
        LET r == CASE h.kind = "add" ->
                        AddEntityUpTo(MaxSceneEntities, world, spawned, selected_entity)
                   [] h.kind = "delete" ->
                        delete_selected_entity(world, spawned, selected_entity)
                   [] OTHER -> hierarchy_panel(world, spawned, selected_entity, h)
        IN /\ Observed
           /\ r.world # world \/ r.selected # selected_entity
           /\ world' = r.world
           /\ spawned' = r.spawned
           /\ selected_entity' = r.selected
           /\ scene_manager' = IF r.world # world THEN mark_dirty(scene_manager)
                                ELSE scene_manager
        /\ result' = "none"
        /\ argPath' = NoneOpt
        /\ preManager' = scene_manager
        /\ preWorld' = world
        /\ lastOp' = "hierarchy_panel"
        /\ UNCHANGED files
        /\ UNCHANGED playVars
        /\ NoViewportEvent

SceneNext ==
    \/ frame_without_call
    \/ call_save_scene
    \/ call_handle_save_prefab
    \/ call_clear_scene_entities
    \/ call_load_scene
    \/ call_spawn_prefab
    \/ call_new_scene
    \/ call_hierarchy_panel

SceneSpec == SceneInit /\ [][SceneNext]_vars

\* ------------------------------------------------------------ type check
TypeOK ==
    /\ state \in EditorPlayState
    /\ next_state \in EditorPlayState \cup {Unchanged}
    /\ DOMAIN world \subseteq 1..spawned
    /\ spawned \in 0..MaxEntities
    /\ \A e \in DOMAIN world : world[e] \in Bundles
    /\ \A i \in 1..Len(snapshot) : snapshot[i].entity \in 1..spawned

\* ---------------------------------------------------------------- claims
\* the last step was the StateTransition schedule of a frame
Committed == lastOp = "apply_state_transition"

\* the last step entered Stopped from Playing or Paused (restore_snapshot ran)
Restored == Committed /\ state = "Stopped" /\ prevState # "Stopped"

\* the transitions of the table in section 4.1
TransitionTable ==
    { <<"Stopped", "Playing">>, <<"Playing", "Paused">>, <<"Paused", "Playing">>,
      <<"Playing", "Stopped">>, <<"Paused", "Stopped">> }

\* the rows of the table as (state, control) pairs
TableRows ==
    { <<"Stopped", "Play">>, <<"Playing", "Pause">>, <<"Paused", "Resume">>,
      <<"Playing", "Stop">>, <<"Paused", "Stop">> }

\* every entity captured at the Stopped->Playing commit that still exists
\* has the Transform it had then
RestoredToOrigin ==
    \A e \in DOMAIN origin \cap TransformQuery(world) : world[e].transform[1] = origin[e]

\* C1: the play state is always one of Stopped, Playing, Paused, and every
\* change of it at a commit is a transition of the table.
C1_StateFollowsTable ==
    /\ state \in EditorPlayState
    /\ (Committed /\ prevState # state) => <<prevState, state>> \in TransitionTable

C1_Witness == Committed /\ prevState = "Paused" /\ state = "Stopped"

\* C2: after Stopped->Playing, mutations while Playing and Playing->Stopped,
\* every surviving entity captured at the Stopped->Playing commit has the
\* Transform it had at that commit.
C2_RoundTrip ==
    (Restored /\ prevState = "Playing" /\ ~resumed) => RestoredToOrigin

C2_Witness ==
    /\ Restored /\ prevState = "Playing" /\ ~resumed
    /\ \E e \in DOMAIN origin \cap TransformQuery(world) :
          /\ preWorld[e].transform[1] # origin[e]
          /\ world[e].transform[1] = origin[e]

\* C3 (as claimed): the Paused->Playing commit changes neither the snapshot
\* nor any entity.
C3_ResumeHasNoSideEffect ==
    (Committed /\ prevState = "Paused" /\ state = "Playing")
        => (snapshot = preSnapshot /\ world = preWorld)

\* C4 (as claimed): whatever Pause/Resume cycles the session had, Stop leaves
\* every surviving entity captured at the Stopped->Playing commit with the
\* Transform it had at that commit.
C4_StopUndoesSession == Restored => RestoredToOrigin

\* C5: the Stopped->Playing commit leaves a snapshot with exactly one pair
\* per transform-bearing entity (cameras and the selected entity included),
\* each holding the entity's Transform at that instant.
C5_CaptureIsTotal ==
    (Committed /\ prevState = "Stopped" /\ state = "Playing") =>
        /\ Len(snapshot) = Cardinality(TransformQuery(world))
        /\ SnapshotEntities(snapshot) = TransformQuery(world)
        /\ \A i \in 1..Len(snapshot) :
              /\ snapshot[i].transform = world[snapshot[i].entity].transform[1]
              /\ snapshot[i].transform = preWorld[snapshot[i].entity].transform[1]

C5_Witness ==
    /\ Committed /\ prevState = "Stopped" /\ state = "Playing"
    /\ Len(snapshot) = 2
    /\ \E i \in 1..Len(snapshot) : world[snapshot[i].entity].camera
    /\ \E i \in 1..Len(snapshot) : selected_entity = Some(snapshot[i].entity)

\* C6: when a captured entity was removed before Stop, the restore leaves it
\* removed and every remaining captured entity has its captured Transform.
C6_RestoreSkipsRemoved ==
    (Restored /\ \E i \in 1..Len(snapshot) : snapshot[i].entity \notin DOMAIN preWorld) =>
        /\ \A i \in 1..Len(snapshot) :
              snapshot[i].entity \notin DOMAIN preWorld => snapshot[i].entity \notin DOMAIN world
        /\ \A i \in 1..Len(snapshot) :
              snapshot[i].entity \in DOMAIN preWorld =>
                 /\ snapshot[i].entity \in DOMAIN world
                 /\ world[snapshot[i].entity].transform = Some(snapshot[i].transform)

C6_Witness ==
    /\ Restored
    /\ \E i \in 1..Len(snapshot) : snapshot[i].entity \notin DOMAIN world
    /\ \E i \in 1..Len(snapshot) :
          /\ snapshot[i].entity \in DOMAIN world
          /\ preWorld[snapshot[i].entity].transform # Some(snapshot[i].transform)
          /\ world[snapshot[i].entity].transform = Some(snapshot[i].transform)

\* the snapshot holds exactly the pairs of this session's capture
SnapshotIsOrigin ==
    /\ SnapshotEntities(snapshot) = DOMAIN origin
    /\ Len(snapshot) = Cardinality(DOMAIN origin)
    /\ \A i \in 1..Len(snapshot) : snapshot[i].transform = origin[snapshot[i].entity]

\* C7: in a session entered after an earlier one (Stopped->Playing->Stopped->
\* Playing->Stopped) the snapshot is the new capture alone, and an entity
\* moved while Stopped between the sessions is restored at the second Stop
\* to the value of the second capture.
C7_FreshCapture ==
    /\ (movedSince # {} /\ ~resumed /\ (state = "Playing" \/ Restored)) => SnapshotIsOrigin
    /\ (Restored /\ prevState = "Playing" /\ ~resumed) =>
          \A e \in movedSince \cap TransformQuery(world) : world[e].transform[1] = origin[e]

C7_Witness ==
    /\ Restored /\ prevState = "Playing" /\ ~resumed
    /\ \E e \in movedSince \cap TransformQuery(world) :
          /\ preWorld[e].transform[1] # origin[e]
          /\ world[e].transform[1] = origin[e]

\* C8: a click on Pause while Stopped, or on Resume while Playing, changes
\* neither the play state, nor the pending request, nor the snapshot, nor
\* any entity; and the commit that follows leaves the play state as it was.
C8_RefusedClickIsNoOp ==
    [][ /\ ( /\ lastOp' = "editor_ui"
             /\ \/ (state = "Stopped" /\ clicked' = {"Pause"})
                \/ (state = "Playing" /\ clicked' = {"Resume"}) )
           => ( /\ state' = state /\ next_state' = next_state
                /\ snapshot' = snapshot /\ world' = world )
        /\ ( /\ lastOp = "editor_ui" /\ lastOp' = "apply_state_transition"
             /\ \/ (state = "Stopped" /\ clicked = {"Pause"})
                \/ (state = "Playing" /\ clicked = {"Resume"}) )
           => ( /\ state' = state /\ snapshot' = snapshot /\ world' = world )
      ]_vars

C8_Witness ==
    /\ lastOp = "editor_ui" /\ state = "Stopped" /\ clicked = {"Pause"}
    /\ next_state = Unchanged

\* the request a set of (state, control) rows allows for the clicks of a
\* frame: the last clicked control, in toolbar order, that is a row for the state
RowWinner(rows, s, c) ==
    LET a1 == IF "Play" \in c /\ <<s, "Play">> \in rows THEN Some("Play") ELSE NoneOpt
        a2 == IF "Pause" \in c /\ <<s, "Pause">> \in rows THEN Some("Pause") ELSE a1
        a3 == IF "Resume" \in c /\ <<s, "Resume">> \in rows THEN Some("Resume") ELSE a2
        a4 == IF "Stop" \in c /\ <<s, "Stop">> \in rows THEN Some("Stop") ELSE a3
    IN a4

RowRequest(rows, s, c) ==
    IF RowWinner(rows, s, c) = NoneOpt THEN Unchanged ELSE Target(RowWinner(rows, s, c)[1])

AmendedRows == TableRows \cup { <<"Paused", "Play">> }

C10_RestoreOnlyRewrites ==
    Restored =>
        /\ DOMAIN world = DOMAIN preWorld
        /\ \A e \in DOMAIN world :
              /\ world[e].camera = preWorld[e].camera
              /\ world[e] # preWorld[e] =>
                    /\ e \in SnapshotEntities(snapshot)
                    /\ preWorld[e].transform # NoneOpt
                    /\ world[e].transform # NoneOpt

C10_Witness ==
    /\ Restored
    /\ \E e \in DOMAIN world : world[e] # preWorld[e]
    /\ \E e \in DOMAIN world : e \notin SnapshotEntities(snapshot) /\ world[e].transform # NoneOpt

\* C11: a gameplay system runs only in a frame whose committed play state is
\* Playing: never while the state is Stopped or Paused.
C11_GameplayOnlyWhilePlaying ==
    [][ lastOp' = "gameplay_system" => (state = "Playing" /\ state' = "Playing") ]_vars

C11_Witness ==
    /\ lastOp = "gameplay_system" /\ state = "Playing" /\ resumed
    /\ next_state = "Paused"

\* the step is a commit that enters Playing (it runs capture_snapshot)
CaptureStep == lastOp' = "apply_state_transition" /\ state # "Playing" /\ state' = "Playing"

\* C12: only a capture replaces the snapshot: every other step (mutations
\* while Playing, Playing->Paused, the restore on Stop, steps while Stopped)
\* leaves the snapshot list as it was, and a capture leaves one entry per
\* transform-bearing entity, nothing of the old list.
C12_SnapshotOnlyReplacedByCapture ==
    [][ /\ ~CaptureStep => snapshot' = snapshot
        /\ CaptureStep =>
              /\ Len(snapshot') = Cardinality(TransformQuery(world))
              /\ SnapshotEntities(snapshot') = TransformQuery(world)
      ]_vars

C12_Witness ==
    /\ Restored /\ world # preWorld
    /\ snapshot = preSnapshot /\ Len(snapshot) = 2

\* C13: the machine starts Stopped with an empty snapshot, and the restore
\* that runs on the initial entry into Stopped changes no entity.
C13_InitialRestoreIsNoOp ==
    /\ lastOp = "init" => (state = "Stopped" /\ snapshot = <<>>)
    /\ lastOp = "init_state" =>
          (state = "Stopped" /\ snapshot = <<>> /\ preSnapshot = <<>> /\ world = preWorld)

C13_Witness ==
    /\ lastOp = "init_state"
    /\ \E e \in TransformQuery(world) : world[e].transform[1] # TransformDefault

\* C14: the Playing->Paused commit changes neither the snapshot nor any entity.
C14_PauseHasNoSideEffect ==
    (Committed /\ prevState = "Playing" /\ state = "Paused")
        => (snapshot = preSnapshot /\ world = preWorld)

C14_Witness ==
    /\ Committed /\ prevState = "Playing" /\ state = "Paused"
    /\ \E i \in 1..Len(snapshot) :
          /\ snapshot[i].entity \in TransformQuery(world)
          /\ world[snapshot[i].entity].transform # Some(snapshot[i].transform)

\* C15: capture_snapshot runs exactly once in the step that makes the state
\* Playing, restore_snapshot exactly once in the step that makes the state
\* Stopped (the initial entry included), and neither runs in any other step.
C15_HandlersOncePerTransition ==
    handlersRan =
        IF lastOp = "init_state" THEN <<"restore_snapshot">>
        ELSE IF Committed /\ prevState # state /\ state = "Playing" THEN <<"capture_snapshot">>
        ELSE IF Committed /\ prevState # state /\ state = "Stopped" THEN <<"restore_snapshot">>
        ELSE <<>>

C15_Witness ==
    /\ Restored /\ prevState = "Paused" /\ world # preWorld
    /\ handlersRan = <<"restore_snapshot">>

\* C16: requests go through one pending slot consumed once per frame: the
\* play state changes only in the commit step, which moves the pending
\* request (if any) into the state and empties the slot; the toolbar
\* therefore finds the slot empty, judges its controls against the committed
\* state, leaves that state alone, and of several requests made in one frame
\* the last one is the one left pending.
C16_OneSlotRequest ==
    [][ /\ state' # state => lastOp' = "apply_state_transition"
        /\ lastOp' = "apply_state_transition" =>
              /\ state' = (IF next_state = Unchanged THEN state ELSE next_state)
              /\ next_state' = Unchanged
        /\ lastOp' = "editor_ui" =>
              /\ next_state = Unchanged
              /\ state' = state
              /\ next_state' = RowRequest(AmendedRows, state, clicked')
      ]_vars

C16_Witness ==
    /\ lastOp = "editor_ui" /\ state = "Paused" /\ clicked = {"Play", "Stop"}
    /\ next_state = "Stopped"

\* C17: every entry of the snapshot has no velocity, in every reachable state.
C17_NoVelocityCaptured ==
    \A i \in 1..Len(snapshot) : snapshot[i].velocity = NoneOpt

C17_Witness ==
    /\ Restored /\ resumed /\ Len(snapshot) = 2
    /\ \A i \in 1..Len(snapshot) : snapshot[i].velocity = NoneOpt

\* C18: clear_scene_entities removes exactly the serializable entities: no
\* entity with a Transform and without a camera is left, and every camera
\* and every entity without a Transform that existed before is still there,
\* as it was.
C18_ClearRemovesSerializable ==
    lastOp = "clear_scene_entities" =>
        /\ \A e \in DOMAIN world : world[e].camera \/ world[e].transform = NoneOpt
        /\ DOMAIN world \subseteq DOMAIN preWorld
        /\ \A e \in DOMAIN preWorld :
              (preWorld[e].camera \/ preWorld[e].transform = NoneOpt) =>
                  (e \in DOMAIN world /\ world[e] = preWorld[e])

C18_Witness ==
    /\ lastOp = "clear_scene_entities"
    /\ \E e \in DOMAIN preWorld : preWorld[e].camera /\ e \in DOMAIN world
    /\ \E e \in DOMAIN preWorld : preWorld[e].transform = NoneOpt /\ e \in DOMAIN world
    /\ \E e \in DOMAIN preWorld : should_serialize_entity(preWorld[e]) /\ e \notin DOMAIN world

\* C19: save_scene updates the SceneManager only on success: after Ok the
\* current scene path is the saved path and the scene is clean; after any
\* error the path and the dirty flag are what they were.
C19_SaveUpdatesManagerOnlyOnSuccess ==
    lastOp = "save_scene" =>
        IF result = "Ok"
        THEN scene_manager = Some([current_scene_path |-> argPath, dirty |-> FALSE])
        ELSE /\ result \in {"Serialization", "Io"}
             /\ scene_manager = preManager

C19_Witness ==
    /\ lastOp = "save_scene" /\ result = "Ok"
    /\ preManager[1].dirty
    /\ preManager[1].current_scene_path # NoneOpt
    /\ preManager[1].current_scene_path # argPath
    /\ scene_manager[1].current_scene_path = argPath
    /\ ~scene_manager[1].dirty

\* C20: a load_scene that returns Ok replaces the scene: every serializable
\* entity from before the call is gone, the entities of the file are
\* spawned as new entities, the current scene path is the loaded path and
\* the scene is clean.
C20_LoadReplacesScene ==
    (lastOp = "load_scene" /\ result = "Ok") =>
        LET ents == files[argPath[1]].entities
            new == DOMAIN world \ DOMAIN preWorld
        IN /\ \A e \in Serializable(preWorld) : e \notin DOMAIN world
           /\ Cardinality(new) = Len(ents)
           /\ \E o \in IterationOrders(new) : \A i \in 1..Len(ents) : world[o[i]] = ents[i]
           /\ scene_manager = Some([current_scene_path |-> argPath, dirty |-> FALSE])

C20_Witness ==
    /\ lastOp = "load_scene" /\ result = "Ok"
    /\ Serializable(preWorld) # {}
    /\ \E e \in DOMAIN preWorld : preWorld[e].camera /\ e \in DOMAIN world
    /\ DOMAIN world \ DOMAIN preWorld # {}
    /\ preManager[1].dirty
    /\ preManager[1].current_scene_path # argPath

\* C21: spawn_prefab never removes an existing entity; when it returns Ok
\* the prefab's entities are added, the scene is dirty and its path is what
\* it was; when it returns an error the path and the dirty flag are what
\* they were.
C21_PrefabOnlyAdds ==
    lastOp = "spawn_prefab" =>
        /\ \A e \in DOMAIN preWorld : e \in DOMAIN world /\ world[e] = preWorld[e]
        /\ IF result = "Ok"
           THEN LET ents == files[argPath[1]].entities
                    new == DOMAIN world \ DOMAIN preWorld
                IN /\ Cardinality(new) = Len(ents)
                   /\ \E o \in IterationOrders(new) :
                         \A i \in 1..Len(ents) : world[o[i]] = ents[i]
                   /\ scene_manager =
                         Some([current_scene_path |-> preManager[1].current_scene_path,
                               dirty |-> TRUE])
           ELSE /\ result \in {"FileRead", "Deserialization"}
                /\ scene_manager = preManager

C21_Witness ==
    /\ lastOp = "spawn_prefab" /\ result = "Ok"
    /\ Serializable(preWorld) # {}
    /\ DOMAIN world \ DOMAIN preWorld # {}
    /\ ~preManager[1].dirty
    /\ preManager[1].current_scene_path # NoneOpt
    /\ preManager[1].current_scene_path # argPath

\* C22: new_scene leaves an empty, clean, unnamed scene: no serializable
\* entity remains, the current scene path is None and the dirty flag is
\* false, whatever the manager held before.
C22_NewSceneIsEmptyAndClean ==
    lastOp = "new_scene" =>
        /\ Serializable(world) = {}
        /\ scene_manager = Some([current_scene_path |-> NoneOpt, dirty |-> FALSE])

C22_Witness ==
    /\ lastOp = "new_scene"
    /\ Serializable(preWorld) # {}
    /\ preManager[1].dirty
    /\ preManager[1].current_scene_path # NoneOpt
    /\ DOMAIN world # {}

\* C23: handle_save_prefab leaves the current scene path as it was, whether
\* the save succeeded, failed or the dialog was cancelled.
C23_SavePrefabKeepsPath ==
    lastOp = "handle_save_prefab" =>
        scene_manager[1].current_scene_path = preManager[1].current_scene_path

C23_Witness ==
    /\ lastOp = "handle_save_prefab" /\ result = "Ok"
    /\ preManager[1].current_scene_path # NoneOpt
    /\ preManager[1].current_scene_path # argPath
    /\ files[argPath[1]].kind = "scene"
    /\ Len(files[argPath[1]].entities) = 2

\* C24: while the play state is Playing or Paused the translation gizmo
\* changes no entity and no field of GizmoDragState, whatever the pointer
\* and drag events of the frame are.
C24_GizmoOnlyWhileStopped ==
    [][ (lastOp' = "editor_ui_viewport" /\ state \in {"Playing", "Paused"}) =>
            (world' = world /\ drag_state' = drag_state) ]_vars

C24_Witness ==
    /\ lastOp = "editor_ui_viewport" /\ state = "Paused"
    /\ drag_state.dragging = Some("X")
    /\ viewportEvent.drag_stopped
    /\ selected_entity # NoneOpt
    /\ selected_entity[1] \in TransformQuery(world)
    /\ \E c \in TransformQuery(world) : world[c].camera

\* the transform-bearing entities spawned since the Stopped->Playing commit
\* of the session that the last step ended
SpawnedInSession == TransformQuery(preWorld) \ DOMAIN origin

\* C25 (as claimed): an entity spawned after the capture, while Playing or
\* Paused, is not in the snapshot, and the restore on Stop neither removes
\* it nor changes its Transform.
C25_LateEntitiesUntouched ==
    Restored =>
        \A e \in SpawnedInSession :
            /\ e \notin SnapshotEntities(snapshot)
            /\ e \in DOMAIN world
            /\ world[e] = preWorld[e]

\* the same statement for sessions without a Paused->Playing commit; it
\* holds, so the statement above fails through the capture on Resume alone
C25_WithoutResume ==
    (Restored /\ ~resumed) =>
        \A e \in SpawnedInSession :
            /\ e \notin SnapshotEntities(snapshot)
            /\ e \in DOMAIN world
            /\ world[e] = preWorld[e]

\* C26 (as claimed): whenever load_scene returns an error the scene is as
\* it was: no entity from before the call has been despawned, and the
\* current scene path and the dirty flag are unchanged.
C26_FailedLoadLeavesScene ==
    (lastOp = "load_scene" /\ result # "Ok") =>
        /\ \A e \in DOMAIN preWorld : e \in DOMAIN world
        /\ scene_manager = preManager

====
